---- MODULE Spec2Model ----
(***************************************************************************)
(* PetChat: one chat session (the ChatPage component) talking to the       *)
(* backend through chatService / petService.                               *)
(*                                                                         *)
(* The component's React state (pet, messages, inputText, isTyping,        *)
(* loading) is the client state.  Every axios call is a record in net: it  *)
(* is first a request ("req"), the backend handles it and turns it into a  *)
(* response ("resp"), and the code after the matching await runs when the  *)
(* client receives the response.  The backend is not part of the frontend  *)
(* sources; its handlers follow the REST table of the specification.       *)
(*                                                                         *)
(* last and trail are history variables: no code reads them.  last names   *)
(* the path the most recent handler of the component took (typing and the  *)
(* backend leave it alone); trail follows whether the operations so far    *)
(* are one successful clear followed by successful submits only; alerted   *)
(* tells whether that handler called alert().                              *)
(*                                                                         *)
(* The other views have their own variables and specifications: the trait  *)
(* buttons of the CreatePet form (SpecTraits), the Dashboard               *)
(* (SpecDashboard), the two confirmed deletions (SpecDestructive), and the *)
(* AuthProvider with the router (SpecAuth).  fetchedPets, gone, dashLast,  *)
(* owners and authLast are history variables.                              *)
(***************************************************************************)
EXTENDS Integers, Sequences, FiniteSets, TLC

VARIABLES
    pet,          \* useState<Pet | null>(null)
    messages,     \* useState<ChatMessage[]>([])
    inputText,    \* useState('')
    isTyping,     \* useState(false)
    loading,      \* useState(true)
    petRes,       \* promise of petService.getPet(petId) inside Promise.all
    historyRes,   \* promise of chatService.getHistory(petId) inside Promise.all
    net,          \* HTTP exchanges in flight
    history,      \* the backend's persisted chat history of the pet
    nReq,         \* send and clear requests issued so far (numbers the requests)
    last,         \* the path the most recent client handler took
    alerted,      \* whether that handler called alert(...)
    trail,        \* whether the session so far is "a clear, then submits, all successful"
    personality_traits,  \* CreatePet: formData.personality_traits
    pets,         \* Dashboard: useState<Pet[]>([]), the pets by their id
    dashLoading,  \* Dashboard: useState(true)
    dashNet,      \* Dashboard: HTTP exchanges in flight
    petStore,     \* the backend's pets of the user
    nDel,         \* Dashboard: delete requests issued so far
    fetchedPets,      \* the list the dashboard's fetch delivered
    gone,         \* pets whose deletion the dashboard saw succeed
    dashLast,     \* the path the most recent Dashboard handler took
    fbUser,       \* the identity Firebase Authentication holds (auth.currentUser)
    user,         \* AuthProvider: useState<User | null>(null)
    authLoading,  \* AuthProvider: useState(true)
    pathname,     \* usePathname()
    navTarget,    \* the route of a router.push that has not committed yet
    notify,       \* the subscribed observer has an auth state to be called with
    owners,       \* the user_id of every create-pet request issued
    createLoading, \* CreatePet: useState(false), true while the request is out
    authLast      \* the path the most recent step of these components took

\* The state of the chat session.
chatVars == <<pet, messages, inputText, isTyping, loading, petRes, historyRes,
              net, history, nReq, last, alerted, trail>>

\* The state of the CreatePet form.
createVars == <<personality_traits>>

\* The state of the other views, which no step of the chat session touches.
\* The state of the Dashboard and of the backend's pet store.
dashVars == <<pets, dashLoading, dashNet, petStore, nDel, fetchedPets, gone, dashLast>>

\* The state of the AuthProvider, the router and the CreatePet submission.
authVars == <<fbUser, user, authLoading, pathname, navTarget, notify, owners,
              createLoading, authLast>>

appVars == <<createVars, dashVars, authVars>>

vars == <<chatVars, appVars>>

(***************************************************************************)
(* Bounds of the model.                                                    *)
(***************************************************************************)
MaxRequests == 2

\* Delete requests one dashboard issues.
MaxDeletes == 2

\* The pets the user owns when the dashboard is mounted.
OwnedPets == <<"p1", "p2">>

(***************************************************************************)
(* Values.                                                                 *)
(***************************************************************************)
\* What the user can have in the input box: a string is a sequence of characters.
Texts == {<<>>, <<" ">>, <<"h">>, <<" ", "h">>}
\* What the persona can answer.
Replies == {<<"w">>}
\* Wall-clock readings; the browser's clock and the backend's clock are independent.
Times == {0, 1}

null == "null"
ThePet == "p1"

ChatMessage(role, content, timestamp) ==
    [role |-> role, content |-> content, timestamp |-> timestamp]

\* The history the backend can hold when the page is opened.
InitialHistories == {<<>>, <<ChatMessage("pet", <<"w">>, 0)>>}

\* A response body; the fields an endpoint does not send keep these defaults.
NoData == [pet |-> null, hasMessages |-> FALSE, messages |-> <<>>,
           message |-> <<>>, timestamp |-> 0]

Request(kind, id, message) ==
    [kind |-> kind, id |-> id, stage |-> "req", ok |-> FALSE,
     message |-> message, data |-> NoData]

Pending == [state |-> "pending", data |-> NoData]

(***************************************************************************)
(* String.prototype.trim and the truthiness of a string.                   *)
(***************************************************************************)
IsWhitespace(c) == c = " "

RECURSIVE trimStart(_)
trimStart(s) ==
    IF s # <<>> /\ IsWhitespace(Head(s)) THEN trimStart(Tail(s)) ELSE s

RECURSIVE trimEnd(_)
trimEnd(s) ==
    IF s # <<>> /\ IsWhitespace(s[Len(s)])
    THEN trimEnd(SubSeq(s, 1, Len(s) - 1))
    ELSE s

trim(s) == trimEnd(trimStart(s))

Falsy(s) == s = <<>>

\* A slip: the fetched history is not used.
MessagesDropped(data) == <<>>

\* historyRes.data.messages || []
MessagesOrEmpty(data) == IF data.hasMessages THEN data.messages ELSE <<>>

(***************************************************************************)
(* Init: the component is mounted, nothing is loaded, and the effect has   *)
(* called init(), which issued both fetches of Promise.all.                *)
(***************************************************************************)
InitDashboard ==
    /\ pets = <<>>
    /\ dashLoading = TRUE
    /\ dashNet = {[kind |-> "listPets", id |-> null, n |-> 0, stage |-> "req",
                   ok |-> FALSE, closure |-> <<>>, data |-> <<>>]}
    /\ petStore = {OwnedPets[i] : i \in 1..Len(OwnedPets)}
    /\ nDel = 0
    /\ fetchedPets = <<>>
    /\ gone = {}
    /\ dashLast = "mount"

\* The application opened at its root with nobody signed in: AuthProvider is
\* mounted and its effect has subscribed to the auth state.
InitAuth ==
    /\ fbUser = null
    /\ user = null
    /\ authLoading = TRUE
    /\ pathname = "/"
    /\ navTarget = null
    /\ notify = TRUE
    /\ owners = {}
    /\ createLoading = FALSE
    /\ authLast = "mount"

InitApp ==
    /\ personality_traits = <<>>
    /\ InitDashboard
    /\ InitAuth

Init ==
    /\ InitApp
    /\ pet = null
    /\ messages = <<>>
    /\ inputText = <<>>
    /\ isTyping = FALSE
    /\ loading = TRUE
    /\ petRes = Pending
    /\ historyRes = Pending
    /\ net = {Request("getPet", 0, <<>>), Request("getHistory", 0, <<>>)}
    /\ history \in InitialHistories
    /\ nReq = 0
    /\ last = "mount"
    /\ alerted = FALSE
    /\ trail = "other"

(***************************************************************************)
(* The backend.                                                            *)
(***************************************************************************)
Respond(r, ok, data) == [r EXCEPT !.stage = "resp", !.ok = ok, !.data = data]

\* Any request can fail: a transport error or a non-2xx status, nothing persisted.
ServerFail ==
    \E r \in net :
        /\ r.stage = "req"
        /\ net' = (net \ {r}) \cup {Respond(r, FALSE, NoData)}
        /\ UNCHANGED <<pet, messages, inputText, isTyping, loading, petRes,
                       historyRes, history, nReq, last, alerted, trail, appVars>>

\* GET /pets/{petId}
ServerGetPet ==
    \E r \in net :
        /\ r.stage = "req" /\ r.kind = "getPet"
        /\ net' = (net \ {r}) \cup {Respond(r, TRUE, [NoData EXCEPT !.pet = ThePet])}
        /\ UNCHANGED <<pet, messages, inputText, isTyping, loading, petRes,
                       historyRes, history, nReq, last, alerted, trail, appVars>>

\* The bodies GET /chat/{petId}/history can answer for a stored history h:
\* {messages: h}, and for an empty h also a body without the messages field.
HistoryBodies(h) ==
    {[NoData EXCEPT !.hasMessages = TRUE, !.messages = h]}
        \cup (IF h = <<>> THEN {NoData} ELSE {})

\* GET /chat/{petId}/history
ServerGetHistory ==
    \E r \in net, body \in HistoryBodies(history) :
        /\ r.stage = "req" /\ r.kind = "getHistory"
        /\ net' = (net \ {r}) \cup {Respond(r, TRUE, body)}
        /\ UNCHANGED <<pet, messages, inputText, isTyping, loading, petRes,
                       historyRes, history, nReq, last, alerted, trail, appVars>>

\* POST /chat {pet_id, message}: persists the user's message and the reply,
\* answers {message, timestamp}.
ServerChat ==
    \E r \in net, reply \in Replies, now \in Times :
        /\ r.stage = "req" /\ r.kind = "sendMessage"
        /\ history' = history \o <<ChatMessage("user", r.message, now),
                                   ChatMessage("pet", reply, now)>>
        /\ net' = (net \ {r}) \cup
                  {Respond(r, TRUE, [NoData EXCEPT !.message = reply,
                                                   !.timestamp = now])}
        /\ UNCHANGED <<pet, messages, inputText, isTyping, loading, petRes,
                       historyRes, nReq, last, alerted, trail, appVars>>

\* DELETE /chat/{petId}/history
ServerClearHistory ==
    \E r \in net :
        /\ r.stage = "req" /\ r.kind = "clearHistory"
        /\ history' = <<>>
        /\ net' = (net \ {r}) \cup {Respond(r, TRUE, NoData)}
        /\ UNCHANGED <<pet, messages, inputText, isTyping, loading, petRes,
                       historyRes, nReq, last, alerted, trail, appVars>>

(***************************************************************************)
(* init(): the continuation of await Promise.all([...]).                   *)
(***************************************************************************)
Settled(r) ==
    [state |-> IF r.ok THEN "fulfilled" ELSE "rejected", data |-> r.data]

\* Once init() has returned nothing refers to the two responses any more.
Forget(res) == [res EXCEPT !.data = NoData]

\* A slip: the pet alone decides, the history fetch is not awaited.
PetFulfilled(p, h) == p.state = "fulfilled"

\* Promise.all fulfils when every promise has fulfilled.
AllFulfilled(p, h) == p.state = "fulfilled" /\ h.state = "fulfilled"

\* Promise.all rejects with the first rejection.
AnyRejected(p, h) == p.state = "rejected" \/ h.state = "rejected"

\* What init() does once the two promises stand at p and h.  After init has
\* settled (finally ran, loading is false) a late result changes nothing.
InitContinue(p, h) ==
    IF ~loading
    THEN /\ petRes' = Forget(p) /\ historyRes' = Forget(h)
         /\ UNCHANGED <<pet, messages, loading, last, alerted>>
    ELSE IF AnyRejected(p, h)
    THEN /\ loading' = FALSE                        \* catch, finally
         /\ petRes' = Forget(p) /\ historyRes' = Forget(h)
         /\ UNCHANGED <<pet, messages>>
         /\ last' = "initFail" /\ alerted' = FALSE
    ELSE IF AllFulfilled(p, h)
    THEN /\ pet' = p.data.pet                       \* setPet(petRes.data)
         /\ messages' = MessagesOrEmpty(h.data)     \* setMessages(... || [])
         /\ loading' = FALSE                        \* finally
         /\ petRes' = Forget(p) /\ historyRes' = Forget(h)
         /\ last' = "initOk" /\ alerted' = FALSE
    ELSE /\ petRes' = p /\ historyRes' = h          \* still awaiting
         /\ UNCHANGED <<pet, messages, loading, last, alerted>>

InitGotPet ==
    \E r \in net :
        /\ r.stage = "resp" /\ r.kind = "getPet"
        /\ InitContinue(Settled(r), historyRes)
        /\ net' = net \ {r}
        /\ UNCHANGED <<inputText, isTyping, history, nReq, trail, appVars>>

InitGotHistory ==
    \E r \in net :
        /\ r.stage = "resp" /\ r.kind = "getHistory"
        /\ InitContinue(petRes, Settled(r))
        /\ net' = net \ {r}
        /\ UNCHANGED <<inputText, isTyping, history, nReq, trail, appVars>>

(***************************************************************************)
(* The chat view: rendered once loading is false.                          *)
(***************************************************************************)
Rendered == ~loading

\* onChange={(e) => setInputText(e.target.value)}
setInputText ==
    \E t \in Texts :
        /\ Rendered
        /\ t # inputText
        /\ inputText' = t
        /\ UNCHANGED <<pet, messages, isTyping, loading, petRes, historyRes,
                       net, history, nReq, last, alerted, trail, appVars>>

\* The send and clear requests of the session that have not resolved yet.
Outstanding == {r \in net : r.kind \in {"sendMessage", "clearHistory"}}

\* A slip: the guard without isTyping.
SendRejectedEmptyOnly(text, typing) == Falsy(trim(text))

\* A slip: the guard without trim().
SendRejectedUntrimmed(text, typing) == Falsy(text) \/ typing

\* if (!inputText.trim() || isTyping) return;
SendRejected(text, typing) == Falsy(trim(text)) \/ typing

\* A slip: the optimistic entry holds the trimmed text, the request the raw one.
UserMessageTrimmed(text, now) == ChatMessage("user", trim(text), now)

\* const userMessage: ChatMessage = { role: 'user', content: inputText, timestamp: ... }
UserMessage(text, now) == ChatMessage("user", text, now)

\* const petResponse: ChatMessage = { role: 'pet', content: ..., timestamp: ... }
PetResponse(data) == ChatMessage("pet", data.message, data.timestamp)

handleSendMessage ==
    /\ Rendered
    /\ \/ /\ SendRejected(inputText, isTyping)
          /\ last' = "submitRejected" /\ alerted' = FALSE
          /\ UNCHANGED <<pet, messages, inputText, isTyping, loading, petRes,
                         historyRes, net, history, nReq, trail, appVars>>
       \/ /\ ~SendRejected(inputText, isTyping)
          /\ nReq < MaxRequests
          /\ \E now \in Times :
                messages' = Append(messages, UserMessage(inputText, now))
          /\ inputText' = <<>>
          /\ isTyping' = TRUE
          /\ nReq' = nReq + 1
          /\ net' = net \cup {Request("sendMessage", nReq + 1, inputText)}
          /\ last' = "submitAccepted" /\ alerted' = FALSE
          /\ trail' = IF trail = "clean" /\ Outstanding = {} THEN "clean" ELSE "other"
          /\ UNCHANGED <<pet, loading, petRes, historyRes, history, appVars>>

\* A slip: the reply appended to the sequence the handler was invoked with
\* (setMessages([...messages, petResponse])), which lacks the optimistic entry.
SendMessageResolvedStale ==
    \E r \in net :
        /\ r.stage = "resp" /\ r.kind = "sendMessage" /\ r.ok
        /\ messages' = Append(IF messages = <<>> THEN <<>>
                                ELSE SubSeq(messages, 1, Len(messages) - 1),
                              PetResponse(r.data))
        /\ isTyping' = FALSE
        /\ net' = net \ {r}
        /\ last' = "sendOk" /\ alerted' = FALSE
        /\ UNCHANGED <<pet, inputText, loading, petRes, historyRes, history,
                       nReq, trail, appVars>>

\* try { const response = await chatService.sendMessage(...); ... } finally { ... }
SendMessageResolved ==
    \E r \in net :
        /\ r.stage = "resp" /\ r.kind = "sendMessage" /\ r.ok
        /\ messages' = Append(messages, PetResponse(r.data))
        /\ isTyping' = FALSE
        /\ net' = net \ {r}
        /\ last' = "sendOk" /\ alerted' = FALSE
        /\ UNCHANGED <<pet, inputText, loading, petRes, historyRes, history,
                       nReq, trail, appVars>>

\* A slip: a failed send re-issued automatically.
SendMessageRejectedRetry ==
    \E r \in net :
        /\ r.stage = "resp" /\ r.kind = "sendMessage" /\ ~r.ok
        /\ net' = (net \ {r}) \cup {Request("sendMessage", r.id, r.message)}
        /\ last' = "sendFail" /\ alerted' = TRUE
        /\ trail' = "other"
        /\ UNCHANGED <<pet, messages, inputText, isTyping, loading, petRes,
                       historyRes, history, nReq, appVars>>

\* A slip: the failure path without the finally block.
SendMessageRejectedNoFinally ==
    \E r \in net :
        /\ r.stage = "resp" /\ r.kind = "sendMessage" /\ ~r.ok
        /\ net' = net \ {r}
        /\ last' = "sendFail" /\ alerted' = TRUE
        /\ trail' = "other"
        /\ UNCHANGED <<pet, messages, inputText, isTyping, loading, petRes,
                       historyRes, history, nReq, appVars>>

\* catch (error) { console.error(...); alert(...); } finally { setIsTyping(false); }
SendMessageRejected ==
    \E r \in net :
        /\ r.stage = "resp" /\ r.kind = "sendMessage" /\ ~r.ok
        /\ isTyping' = FALSE
        /\ net' = net \ {r}
        /\ last' = "sendFail" /\ alerted' = TRUE
        /\ trail' = "other"
        /\ UNCHANGED <<pet, messages, inputText, loading, petRes, historyRes,
                       history, nReq, appVars>>

\* A slip: the local sequence is kept after the remote deletion.
NotCleared(msgs) == msgs

\* setMessages([]) after a successful clearHistory
Cleared(msgs) == <<>>

handleClearHistory ==
    /\ Rendered
    /\ \E confirmed \in BOOLEAN :
        \/ /\ ~confirmed
           /\ last' = "clearDeclined" /\ alerted' = FALSE
           /\ UNCHANGED <<pet, messages, inputText, isTyping, loading, petRes,
                          historyRes, net, history, nReq, trail, appVars>>
        \/ /\ confirmed
           /\ nReq < MaxRequests
           /\ nReq' = nReq + 1
           /\ net' = net \cup {Request("clearHistory", nReq + 1, <<>>)}
           /\ last' = "clearIssued" /\ alerted' = FALSE
           /\ trail' = IF Outstanding = {} THEN "clearing" ELSE "other"
           /\ UNCHANGED <<pet, messages, inputText, isTyping, loading, petRes,
                          historyRes, history, appVars>>

ClearHistoryResolved ==
    \E r \in net :
        /\ r.stage = "resp" /\ r.kind = "clearHistory" /\ r.ok
        /\ messages' = Cleared(messages)
        /\ net' = net \ {r}
        /\ last' = "clearOk" /\ alerted' = FALSE
        /\ trail' = IF trail = "clearing" THEN "clean" ELSE "other"
        /\ UNCHANGED <<pet, inputText, isTyping, loading, petRes, historyRes,
                       history, nReq, appVars>>

\* catch (error) { console.error('Failed to clear history:', error); }
ClearHistoryRejected ==
    \E r \in net :
        /\ r.stage = "resp" /\ r.kind = "clearHistory" /\ ~r.ok
        /\ net' = net \ {r}
        /\ last' = "clearFail" /\ alerted' = FALSE
        /\ trail' = "other"
        /\ UNCHANGED <<pet, messages, inputText, isTyping, loading, petRes,
                       historyRes, history, nReq, appVars>>

Next ==
    \/ ServerFail
    \/ ServerGetPet
    \/ ServerGetHistory
    \/ ServerChat
    \/ ServerClearHistory
    \/ InitGotPet
    \/ InitGotHistory
    \/ setInputText
    \/ handleSendMessage
    \/ SendMessageResolved
    \/ SendMessageRejected
    \/ handleClearHistory
    \/ ClearHistoryResolved
    \/ ClearHistoryRejected

Spec == Init /\ [][Next]_vars

\* The session when every request is eventually answered: the backend answers
\* a pending POST /chat, and the event loop runs the code after an await once
\* its response is there.
LiveSpec ==
    /\ Spec
    /\ WF_vars(ServerChat)
    /\ WF_vars(SendMessageResolved)
    /\ WF_vars(SendMessageRejected)

(***************************************************************************)
(* The CreatePet form: the personality traits.                             *)
(***************************************************************************)
TRAITS == <<"playful", "grumpy", "lazy", "energetic", "curious", "shy",
            "mischievous", "affectionate", "sassy", "dramatic">>

\* the literal of formData.personality_traits.length < 5
TraitLimit == 5

\* Array.prototype.includes
includes(s, x) == \E i \in 1..Len(s) : s[i] = x

\* s.filter(t => t !== x)
RECURSIVE filterNot(_, _)
filterNot(s, x) ==
    IF s = <<>> THEN <<>>
    ELSE IF Head(s) # x THEN <<Head(s)>> \o filterNot(Tail(s), x)
    ELSE filterNot(Tail(s), x)

\* A slip: the limit tested with <= instead of <.
ToggledUpToLimit(traits, trait) ==
    IF includes(traits, trait) THEN filterNot(traits, trait)
    ELSE IF Len(traits) <= TraitLimit THEN Append(traits, trait)
    ELSE traits

\* The personality_traits that toggleTrait(trait) sets.
Toggled(traits, trait) ==
    IF includes(traits, trait) THEN filterNot(traits, trait)
    ELSE IF Len(traits) < TraitLimit THEN Append(traits, trait)
    ELSE traits

\* onClick={() => toggleTrait(trait)}, one button per entry of TRAITS
toggleTrait ==
    /\ \E i \in 1..Len(TRAITS) :
          personality_traits' = Toggled(personality_traits, TRAITS[i])
    /\ UNCHANGED <<chatVars, dashVars, authVars>>

NextTraits == toggleTrait

SpecTraits == Init /\ [][NextTraits]_vars

(***************************************************************************)
(* The Dashboard of a signed-in user: the effect has called fetchPets().   *)
(* A delete request keeps the pets of the render whose handler issued it:  *)
(* the code after the await reads that closure, not the current state.     *)
(***************************************************************************)
\* GET /pets: the user's pets.
ServerListPets ==
    \E r \in dashNet :
        /\ r.stage = "req" /\ r.kind = "listPets"
        /\ dashNet' = (dashNet \ {r}) \cup
              {[r EXCEPT !.stage = "resp", !.ok = TRUE,
                         !.data = SelectSeq(OwnedPets, LAMBDA p : p \in petStore)]}
        /\ UNCHANGED <<pets, dashLoading, petStore, nDel, fetchedPets, gone, dashLast>>
        /\ UNCHANGED <<chatVars, createVars, authVars>>

\* DELETE /pets/{id}: removes the pet.
ServerDeletePet ==
    \E r \in dashNet :
        /\ r.stage = "req" /\ r.kind = "deletePet"
        /\ r.id \in petStore
        /\ petStore' = petStore \ {r.id}
        /\ dashNet' = (dashNet \ {r}) \cup {[r EXCEPT !.stage = "resp", !.ok = TRUE]}
        /\ UNCHANGED <<pets, dashLoading, nDel, fetchedPets, gone, dashLast>>
        /\ UNCHANGED <<chatVars, createVars, authVars>>

\* Any request can fail (pet not found, backend or network error); nothing changes.
ServerDashFail ==
    \E r \in dashNet :
        /\ r.stage = "req"
        /\ dashNet' = (dashNet \ {r}) \cup {[r EXCEPT !.stage = "resp", !.ok = FALSE]}
        /\ UNCHANGED <<pets, dashLoading, petStore, nDel, fetchedPets, gone, dashLast>>
        /\ UNCHANGED <<chatVars, createVars, authVars>>

\* fetchPets: setPets(response.data); finally setLoading(false)
fetchPetsResolved ==
    \E r \in dashNet :
        /\ r.stage = "resp" /\ r.kind = "listPets" /\ r.ok
        /\ pets' = r.data
        /\ fetchedPets' = r.data
        /\ dashLoading' = FALSE
        /\ dashNet' = dashNet \ {r}
        /\ dashLast' = "fetchOk"
        /\ UNCHANGED <<petStore, nDel, gone>>
        /\ UNCHANGED <<chatVars, createVars, authVars>>

\* fetchPets: catch { console.error(...) } finally { setLoading(false) }
fetchPetsRejected ==
    \E r \in dashNet :
        /\ r.stage = "resp" /\ r.kind = "listPets" /\ ~r.ok
        /\ dashLoading' = FALSE
        /\ dashNet' = dashNet \ {r}
        /\ dashLast' = "fetchFail"
        /\ UNCHANGED <<pets, petStore, nDel, fetchedPets, gone>>
        /\ UNCHANGED <<chatVars, createVars, authVars>>

\* A slip: the request issued whatever confirm() answers.
handleDeletePetUnconfirmed ==
    /\ ~dashLoading
    /\ nDel < MaxDeletes
    /\ \E i \in 1..Len(pets), confirmed \in BOOLEAN :
          /\ nDel' = nDel + 1
          /\ dashNet' = dashNet \cup
                {[kind |-> "deletePet", id |-> pets[i], n |-> nDel + 1,
                  stage |-> "req", ok |-> FALSE, closure |-> pets, data |-> <<>>]}
          /\ dashLast' = IF confirmed THEN "deleteIssued" ELSE "deleteDeclined"
    /\ UNCHANGED <<pets, dashLoading, petStore, fetchedPets, gone>>
    /\ UNCHANGED <<chatVars, createVars, authVars>>

\* handleDeletePet up to the await: the trash button of a listed pet.
handleDeletePet ==
    /\ ~dashLoading
    /\ \E i \in 1..Len(pets), confirmed \in BOOLEAN :
        \/ /\ ~confirmed
           /\ dashLast' = "deleteDeclined"
           /\ UNCHANGED <<pets, dashLoading, dashNet, petStore, nDel, fetchedPets, gone>>
        \/ /\ confirmed
           /\ nDel < MaxDeletes
           /\ nDel' = nDel + 1
           /\ dashNet' = dashNet \cup
                {[kind |-> "deletePet", id |-> pets[i], n |-> nDel + 1,
                  stage |-> "req", ok |-> FALSE, closure |-> pets, data |-> <<>>]}
           /\ dashLast' = "deleteIssued"
           /\ UNCHANGED <<pets, dashLoading, petStore, fetchedPets, gone>>
    /\ UNCHANGED <<chatVars, createVars, authVars>>

\* handleDeletePet after the await: setPets(pets.filter(p => p.id !== id))
DeletePetResolved ==
    \E r \in dashNet :
        /\ r.stage = "resp" /\ r.kind = "deletePet" /\ r.ok
        /\ pets' = filterNot(r.closure, r.id)
        /\ gone' = gone \cup {r.id}
        /\ dashNet' = dashNet \ {r}
        /\ dashLast' = "deleteOk"
        /\ UNCHANGED <<dashLoading, petStore, nDel, fetchedPets>>
        /\ UNCHANGED <<chatVars, createVars, authVars>>

\* handleDeletePet: catch { console.error('Failed to delete pet:', error) }
DeletePetRejected ==
    \E r \in dashNet :
        /\ r.stage = "resp" /\ r.kind = "deletePet" /\ ~r.ok
        /\ dashNet' = dashNet \ {r}
        /\ dashLast' = "deleteFail"
        /\ UNCHANGED <<pets, dashLoading, petStore, nDel, fetchedPets, gone>>
        /\ UNCHANGED <<chatVars, createVars, authVars>>

NextDashboard ==
    \/ ServerListPets
    \/ ServerDeletePet
    \/ ServerDashFail
    \/ fetchPetsResolved
    \/ fetchPetsRejected
    \/ handleDeletePet
    \/ DeletePetResolved
    \/ DeletePetRejected

SpecDashboard == Init /\ [][NextDashboard]_vars

(***************************************************************************)
(* The two destructive actions in one visit: the user is on the dashboard, *)
(* and once it is at rest goes on to the chat, which only loads and        *)
(* clears.  Leaving the dashboard unmounts it, so its handlers run only    *)
(* before the chat's requests are served.                                  *)
(***************************************************************************)
DashboardAtRest == ~dashLoading /\ dashNet = {}

ChatNotStarted ==
    /\ petRes = Pending /\ historyRes = Pending
    /\ \A r \in net : r.stage = "req"

NextDestructive ==
    \/ /\ ChatNotStarted
       /\ NextDashboard
    \/ /\ DashboardAtRest
       /\ \/ ServerFail
          \/ ServerGetPet
          \/ ServerGetHistory
          \/ ServerClearHistory
          \/ InitGotPet
          \/ InitGotHistory
          \/ handleClearHistory
          \/ ClearHistoryResolved
          \/ ClearHistoryRejected

SpecDestructive == Init /\ [][NextDestructive]_vars

(***************************************************************************)
(* Authentication and routing: the AuthProvider around every page, the     *)
(* LoginPage, the Dashboard's logout and the CreatePet submission.         *)
(* router.push only starts a navigation; pathname changes when it commits. *)
(* The effect of AuthProvider depends on pathname, so every committed      *)
(* navigation subscribes a new observer, which Firebase calls with the     *)
(* current auth state.                                                     *)
(***************************************************************************)
Paths == {"/", "/create", "/login", "/signup"}

TheUser == "u1"

\* A slip: only /login counts as an auth page.
IsAuthPageLoginOnly(p) == p = "/login"

\* pathname !== '/login' && pathname !== '/signup', negated
IsAuthPage(p) == p = "/login" \/ p = "/signup"

\* {!loading && children}
ChildrenRendered == ~authLoading

\* user?.uid || 'demo-user'
OwnerId(u) == IF u # null THEN u ELSE "demo-user"

\* A page opened by its URL: the application is loaded anew.
OpenPage ==
    /\ \E p \in Paths : pathname' = p
    /\ user' = null
    /\ authLoading' = TRUE
    /\ navTarget' = null
    /\ notify' = TRUE
    /\ createLoading' = FALSE
    /\ authLast' = "mount"
    /\ UNCHANGED <<fbUser, owners>>
    /\ UNCHANGED <<chatVars, createVars, dashVars>>

\* The callback of onAuthStateChanged.
AuthStateObserved ==
    /\ notify
    /\ notify' = FALSE
    /\ IF fbUser # null
       THEN /\ user' = fbUser
            /\ authLast' = "observedUser"
            /\ UNCHANGED navTarget
       ELSE /\ user' = null
            /\ authLast' = "observedNone"
            /\ IF ~IsAuthPage(pathname)
               THEN navTarget' = "/login"
               ELSE UNCHANGED navTarget
    /\ authLoading' = FALSE
    /\ UNCHANGED <<fbUser, pathname, owners, createLoading>>
    /\ UNCHANGED <<chatVars, createVars, dashVars>>

\* The navigation a router.push started commits; the effect subscribes anew.
NavigationCommitted ==
    /\ navTarget # null
    /\ pathname' = navTarget
    /\ navTarget' = null
    /\ notify' = TRUE
    /\ authLast' = "navigated"
    /\ UNCHANGED <<fbUser, user, authLoading, owners, createLoading>>
    /\ UNCHANGED <<chatVars, createVars, dashVars>>

\* <Link href="/create"> on the Dashboard, <Link href="/"> on CreatePet
LinkClicked ==
    /\ ChildrenRendered
    /\ \/ pathname = "/" /\ navTarget' = "/create"
       \/ pathname = "/create" /\ navTarget' = "/"
    /\ authLast' = "link"
    /\ UNCHANGED <<fbUser, user, authLoading, pathname, notify, owners, createLoading>>
    /\ UNCHANGED <<chatVars, createVars, dashVars>>

\* LoginPage handleAuth / handleGoogleSignIn: sign in, then router.push('/');
\* a rejected sign-in only sets the error text.
handleAuth ==
    /\ ChildrenRendered
    /\ pathname = "/login"
    /\ \/ /\ fbUser' = TheUser
          /\ notify' = TRUE
          /\ navTarget' = "/"
          /\ authLast' = "signedIn"
       \/ /\ authLast' = "signInFailed"
          /\ UNCHANGED <<fbUser, notify, navTarget>>
    /\ UNCHANGED <<user, authLoading, pathname, owners, createLoading>>
    /\ UNCHANGED <<chatVars, createVars, dashVars>>

\* logout: await signOut(auth); router.push('/login')
logout ==
    /\ ChildrenRendered
    /\ pathname = "/"
    /\ fbUser' = null
    /\ notify' = TRUE
    /\ navTarget' = "/login"
    /\ authLast' = "logout"
    /\ UNCHANGED <<user, authLoading, pathname, owners, createLoading>>
    /\ UNCHANGED <<chatVars, createVars, dashVars>>

\* The session ends outside this page (signed out in another tab, account
\* disabled): Firebase calls the observer with no identity.
SessionEnded ==
    /\ fbUser # null
    /\ fbUser' = null
    /\ notify' = TRUE
    /\ authLast' = "sessionEnded"
    /\ UNCHANGED <<user, authLoading, pathname, navTarget, owners, createLoading>>
    /\ UNCHANGED <<chatVars, createVars, dashVars>>

\* CreatePet handleSubmit up to the await; the button is disabled while loading.
handleSubmit ==
    /\ ChildrenRendered
    /\ pathname = "/create"
    /\ ~createLoading
    /\ createLoading' = TRUE
    /\ owners' = owners \cup {OwnerId(user)}
    /\ authLast' = "submitted"
    /\ UNCHANGED <<fbUser, user, authLoading, pathname, navTarget, notify>>
    /\ UNCHANGED <<chatVars, createVars, dashVars>>

\* handleSubmit after the await: router.push('/') or alert(...); finally setLoading(false)
CreatePetSettled ==
    /\ createLoading
    /\ createLoading' = FALSE
    /\ \/ navTarget' = "/" /\ authLast' = "created"
       \/ authLast' = "createFailed" /\ UNCHANGED navTarget
    /\ UNCHANGED <<fbUser, user, authLoading, pathname, notify, owners>>
    /\ UNCHANGED <<chatVars, createVars, dashVars>>

NextAuth ==
    \/ OpenPage
    \/ AuthStateObserved
    \/ NavigationCommitted
    \/ LinkClicked
    \/ handleAuth
    \/ logout
    \/ SessionEnded
    \/ handleSubmit
    \/ CreatePetSettled

SpecAuth == Init /\ [][NextAuth]_vars

(***************************************************************************)
(* Helpers of the properties.                                              *)
(***************************************************************************)
Sends == {r \in net : r.kind = "sendMessage"}

\* r is a response of the given kind and outcome that this step delivers.
Delivered(r, kind, ok) ==
    /\ r.kind = kind /\ r.stage = "resp" /\ r.ok = ok
    /\ r \notin net'

RoleAndContent(msgs) ==
    [i \in 1..Len(msgs) |-> [role |-> msgs[i].role, content |-> msgs[i].content]]

\* a is b with zero or more entries left out
RECURSIVE IsSubsequence(_, _)
IsSubsequence(a, b) ==
    IF a = <<>> THEN TRUE
    ELSE IF b = <<>> THEN FALSE
    ELSE IF Head(a) = Head(b) THEN IsSubsequence(Tail(a), Tail(b))
    ELSE IsSubsequence(a, Tail(b))

\* The sequences a fresh, successful init() can put in messages right now.
Refetched == {MessagesOrEmpty(body) : body \in HistoryBodies(history)}

\* Same entries in the same order, except for the timestamps of "user" entries.
SameButUserTimestamps(a, b) ==
    /\ RoleAndContent(a) = RoleAndContent(b)
    /\ \A i \in 1..Len(a) : a[i].role = "pet" => a[i].timestamp = b[i].timestamp

(***************************************************************************)
(* Properties.                                                             *)
(***************************************************************************)

\* C1: a session never has more than one send request outstanding (isTyping
\* is true exactly while one is), and handleSendMessage invoked while
\* isTyping is true issues no request and appends nothing.
C1_AtMostOneSend ==
    /\ [](Cardinality(Sends) <= 1 /\ (isTyping <=> Sends # {}))
    /\ [][(handleSendMessage /\ isTyping)
            => UNCHANGED <<messages, net, nReq, isTyping, inputText>>]_vars

C1_Witness ==
    last = "submitRejected" /\ isTyping /\ ~Falsy(trim(inputText))

\* C2: handleSendMessage invoked with an input that is empty after trimming
\* issues no request and changes neither messages nor isTyping, whatever the
\* state of the session.
C2_BlankSubmitIgnored ==
    [][(handleSendMessage /\ Falsy(trim(inputText)))
        => UNCHANGED <<messages, isTyping, net, nReq, history, inputText>>]_vars

C2_Witness ==
    last = "submitRejected" /\ inputText = <<" ">> /\ ~isTyping

\* C3 (as claimed): in a session whose init succeeded, when a send resolves
\* successfully the controller is idle
\* and messages ends with the "user" entry of the submitted text followed by
\* the "pet" entry of the reply, whatever else happened during the send.
C3_SuccessEndsWithUserThenPet ==
    [][\A r \in net :
        (pet # null /\ Delivered(r, "sendMessage", TRUE))
            => /\ ~isTyping'
               /\ Len(messages') >= 2
               /\ messages'[Len(messages') - 1].role = "user"
               /\ messages'[Len(messages') - 1].content = r.message
               /\ messages'[Len(messages')] = PetResponse(r.data)]_vars

\* C4 (as claimed): in a session whose init succeeded, when a send fails the
\* controller is idle again and the
\* optimistic "user" entry of the submitted text is still the last entry of
\* messages (kept, not doubled, no "pet" entry after it).
C4_FailureKeepsOptimisticEntry ==
    [][\A r \in net :
        (pet # null /\ Delivered(r, "sendMessage", FALSE))
            => /\ ~isTyping'
               /\ Len(messages') >= 1
               /\ messages'[Len(messages')].role = "user"
               /\ messages'[Len(messages')].content = r.message
               /\ messages' = messages]_vars

C6_ServerHistoryWithinLocal ==
    (pet # null /\ net = {})
        => IsSubsequence(RoleAndContent(history), RoleAndContent(messages))

\* C7: init is all or nothing: while it runs neither pet nor messages is
\* set; pet is only ever set when both getPet and getHistory fulfilled; and
\* a failed init leaves pet null and messages empty.
C7_InitAtomic ==
    /\ loading => (pet = null /\ messages = <<>>)
    /\ pet # null => (petRes.state = "fulfilled" /\ historyRes.state = "fulfilled")
    /\ last = "initFail" => (pet = null /\ messages = <<>>)
    /\ last = "initOk" => pet = ThePet

C7_Witness ==
    last = "initFail" /\ petRes.state = "fulfilled" /\ historyRes.state = "rejected"

\* C8 (as claimed): with no pet loaded the chat view is never rendered and
\* no send or clear request is ever in flight.
C8_NoChatWithoutPet ==
    pet = null => (~Rendered /\ Outstanding = {})

\* C9: right after a successful init, before any handler of the view has
\* run, messages equals the backend's history entry for entry, the pet is
\* loaded and no send is outstanding.
C9_InitLoadsServerHistory ==
    last = "initOk" => (messages = history /\ pet = ThePet /\ ~isTyping /\ ~loading)

C9_Witness ==
    last = "initOk" /\ messages # <<>>

C9_WitnessAbsentField ==
    last = "initOk" /\ messages = <<>> /\ history = <<>>

\* C10 (as claimed): in a session whose init succeeded, after a successful
\* clear followed only by successful submits, with nothing outstanding, a
\* fresh successful init would load exactly the sequence the client holds.
C10_RefetchEqualsLocal ==
    (pet # null /\ trail = "clean" /\ Outstanding = {})
        => \A fetched \in Refetched : fetched = messages

\* C10 (amended): ... a fresh successful init would load the sequence the
\* client holds up to the timestamps of the "user" entries: same length,
\* same roles and contents in the same order, same timestamps on the "pet"
\* entries.
C10_RefetchMatchesLocalButUserTimestamps ==
    (trail = "clean" /\ Outstanding = {})
        => \A fetched \in Refetched : SameButUserTimestamps(fetched, messages)

C10_Witness ==
    trail = "clean" /\ Outstanding = {} /\ Len(messages) = 2
        /\ messages[1].timestamp # history[1].timestamp

\* C11 (as claimed): in a session whose init succeeded, a handler that ends
\* in a failed send or a failed clear has shown the user a notification
\* (alert), not only written to the log.
C11_FailuresNotifyUser ==
    (pet # null /\ last \in {"sendFail", "clearFail"}) => alerted

\* C13 (as claimed): in a session whose init succeeded, a send request and
\* a clear request are never in flight at the same time.
C13_SendAndClearSerialized ==
    pet # null =>
        ~(\E s \in net, c \in net : s.kind = "sendMessage" /\ c.kind = "clearHistory")

\* C12: the controller leaves Sending exactly when the outstanding send is
\* delivered, successful or failed; until then it stays in Sending and
\* rejects every submit (nothing times out or cancels); and when requests
\* are eventually answered, every Sending state leads to Idle.
C12_SendingLeadsToIdle ==
    /\ [][\A r \in net :
            (r.kind = "sendMessage" /\ r.stage = "resp" /\ r \notin net')
                => ~isTyping']_vars
    /\ [][(isTyping /\ ~isTyping')
            => \E r \in net :
                r.kind = "sendMessage" /\ r.stage = "resp" /\ r \notin net']_vars
    /\ [][(isTyping /\ handleSendMessage) => (isTyping' /\ net' = net)]_vars
    /\ (isTyping ~> ~isTyping)

C12_Witness ==
    last \in {"sendOk", "sendFail"} /\ ~isTyping /\ Sends = {}

\* C14: apart from the completion of init and the delivery of a successful
\* clear, every step leaves messages unchanged or appends exactly one entry
\* at its end: an accepted submit appends the "user" entry of the text, a
\* successful send appends the "pet" entry of its reply, and that reply comes
\* right after the "user" entry of its own submit unless a clear emptied the
\* sequence during the send.
C14_AppendOnlyBetweenClears ==
    [][\/ loading /\ ~loading'
       \/ \E r \in net : Delivered(r, "clearHistory", TRUE)
       \/ messages' = messages
       \/ /\ ~SendRejected(inputText, isTyping)
          /\ \E now \in Times :
                messages' = Append(messages, UserMessage(inputText, now))
          /\ \E r \in net' \ net : r.kind = "sendMessage" /\ r.message = inputText
       \/ \E r \in net :
            /\ Delivered(r, "sendMessage", TRUE)
            /\ messages' = Append(messages, PetResponse(r.data))
            /\ messages # <<>> =>
                /\ messages[Len(messages)].role = "user"
                /\ messages[Len(messages)].content = r.message]_vars

C14_Witness ==
    /\ last = "sendOk"
    /\ Len(messages) >= 2
    /\ messages[Len(messages) - 1].role = "user"
    /\ messages[Len(messages)].role = "pet"

\* The requests a step puts on the network.
Issued == {r \in net' : r.stage = "req"} \ net

\* C15: a step issues at most one request; it issues a send request exactly
\* when it is an accepted submit (it appends a "user" entry) and then the
\* request carries the pet and the submitted text; it issues a clear request
\* exactly when it is a confirmed clear; the delivery of a failure, or of any
\* other response, issues nothing (no automatic retry).
C15_OneRequestPerOperation ==
    [][/\ Cardinality(Issued) <= 1
       /\ (\E r \in Issued : r.kind = "sendMessage")
            <=> /\ Len(messages') = Len(messages) + 1
                /\ messages'[Len(messages')].role = "user"
       /\ \A r \in Issued :
            r.kind = "sendMessage" =>
                r.message = inputText /\ r.message = messages'[Len(messages')].content
       /\ (\E r \in Issued : r.kind = "clearHistory")
            <=> (handleClearHistory /\ last' = "clearIssued")
       /\ \A r \in Issued : r.kind \in {"sendMessage", "clearHistory"}
       /\ (\E r \in net : r.stage = "resp" /\ r \notin net') => Issued = {}]_vars

C15_Witness ==
    last = "sendFail" /\ net = {} /\ nReq = 1 /\ Len(messages) >= 1

\* C18: after any sequence of toggleTrait calls the selected traits are at
\* most 5, without duplicates, in the order they were selected; toggling a
\* selected trait removes exactly that trait and keeps the others in order,
\* toggling an unselected trait appends it when fewer than 5 are selected and
\* changes nothing when 5 are.
C18_TraitsBoundedUniqueOrdered ==
    /\ Len(personality_traits) <= 5
    /\ \A i, j \in 1..Len(personality_traits) :
          personality_traits[i] = personality_traits[j] => i = j
    /\ \A k \in 1..Len(TRAITS) :
          LET t == TRAITS[k]
              selected == \E i \in 1..Len(personality_traits) : personality_traits[i] = t
              after == Toggled(personality_traits, t)
          IN  /\ selected =>
                    /\ Len(after) = Len(personality_traits) - 1
                    /\ IsSubsequence(after, personality_traits)
                    /\ \A i \in 1..Len(after) : after[i] # t
              /\ (~selected /\ Len(personality_traits) < 5) =>
                    after = personality_traits \o <<t>>
              /\ (~selected /\ Len(personality_traits) = 5) =>
                    after = personality_traits

C18_Witness ==
    /\ Len(personality_traits) = 5
    /\ personality_traits[1] = "dramatic"
    /\ personality_traits[5] = "playful"

\* C19 (as claimed): on the dashboard, however delete requests and their
\* responses interleave, a pet whose deletion succeeded is never in the local
\* list again, a failed deletion leaves the list unchanged, and once every
\* response has arrived the list is the fetched list without the
\* successfully deleted pets.
C19_DeletedPetsStayDeleted ==
    /\ \A i \in 1..Len(pets) : pets[i] \notin gone
    /\ dashNet = {} => pets = SelectSeq(fetchedPets, LAMBDA p : p \notin gone)

\* C17: when the user declines the confirmation, clear history issues no
\* request and leaves messages (and the stored history) unchanged, and
\* delete pet issues no request and leaves the pet list (and the stored
\* pets) unchanged.
C17_DeclinedChangesNothing ==
    /\ [][(handleClearHistory /\ last' = "clearDeclined")
            => /\ net' = net /\ dashNet' = dashNet
               /\ messages' = messages /\ history' = history]_vars
    /\ [][(handleDeletePet /\ dashLast' = "deleteDeclined")
            => /\ dashNet' = dashNet /\ net' = net
               /\ pets' = pets /\ petStore' = petStore]_vars

C17_Witness ==
    /\ last = "clearDeclined" /\ messages # <<>>
    /\ dashLast = "deleteDeclined" /\ pets # <<>>
    /\ net = {} /\ dashNet = {}

\* C16: when the observer is called with no identity while the path is
\* neither /login nor /signup, a redirect to /login is issued; when the path
\* is /login or /signup none is issued; and the children are rendered only
\* after an auth state has been observed (every handler of a page runs after
\* the callback has).
C16_RedirectUnlessAuthPage ==
    /\ [][(AuthStateObserved /\ fbUser = null)
            => /\ pathname \notin {"/login", "/signup"} => navTarget' = "/login"
               /\ pathname \in {"/login", "/signup"} => navTarget' = navTarget
               /\ user' = null]_vars
    /\ [][(authLoading /\ ~authLoading') => AuthStateObserved]_vars
    /\ [][(LinkClicked \/ handleAuth \/ logout \/ handleSubmit) => ~authLoading]_vars
    /\ [](ChildrenRendered => authLast # "mount")

C16_Witness ==
    /\ authLast = "observedNone"
    /\ pathname = "/signup"
    /\ navTarget = null
    /\ ChildrenRendered

\* C20 (as claimed): every create-pet request carries the uid of the signed-in
\* identity: the create form cannot be submitted while the provider holds no
\* identity, and 'demo-user' is never sent.
C20_CreateAlwaysAuthenticated ==
    /\ "demo-user" \notin owners
    /\ ~(ChildrenRendered /\ pathname = "/create" /\ ~createLoading /\ user = null)

====
